---- MODULE Spec2Model ----
(***************************************************************************)
(* The construction pass of bin/app.ts of webapp-core: the environment is  *)
(* read, the six stacks are instantiated one after another, the explicit   *)
(* deploy-after edges are added and the FrontendURL output is declared.    *)
(*                                                                         *)
(* Strings are sequences of tokens, so that template strings are           *)
(* concatenations (\o) and prefixes are visible.  The override strings of  *)
(* the numeric settings are sequences of single characters, parsed by      *)
(* ToNumber the way Number() parses them.  The dotted instance class is a  *)
(* sequence in which every "." is a token of its own.                      *)
(***************************************************************************)
EXTENDS Integers, Sequences, FiniteSets, TLC

\* ------------------------------------------------------------------ bounds
\* How many settings one environment overrides at most.
MaxOverrides == 1
\* How many times the process is run on the same environment.
MaxRuns == 2

\* ------------------------------------------------------- optional values
\* A value that may be undefined (process.env.X of an absent X, X || undefined).
Undefined == [def |-> FALSE, s |-> <<>>]
Def(str) == [def |-> TRUE, s |-> str]
\* JS truthiness of a string-or-undefined: undefined and "" are falsy.
Truthy(v) == v.def /\ v.s # <<>>
\* v || dflt for a string-or-undefined v and a string dflt.
OrElse(v, dflt) == IF Truthy(v) THEN v.s ELSE dflt
\* The operand passed on as it is, without "|| undefined".
PassedThrough(v) == v

\* v || undefined
OrUndefined(v) == IF Truthy(v) THEN v ELSE Undefined

\* --------------------------------------------------------------- numbers
\* A JS number: NaN, or the decimal fraction num/den with den a power of
\* ten and no trailing zero in the fraction (so that equal numbers are equal
\* records).
NaN == [nan |-> TRUE, num |-> 0, den |-> 1]
RECURSIVE Normalise(_, _)
Normalise(num, den) ==
    IF den > 1 /\ num % 10 = 0 THEN Normalise(num \div 10, den \div 10)
    ELSE [nan |-> FALSE, num |-> num, den |-> den]
Num(n) == [nan |-> FALSE, num |-> n, den |-> 1]

DigitChars == <<"0", "1", "2", "3", "4", "5", "6", "7", "8", "9">>
IsDigit(c) == \E i \in 1..10 : DigitChars[i] = c
DigitVal(c) == (CHOOSE i \in 1..10 : DigitChars[i] = c) - 1

RECURSIVE TrimLeft(_)
TrimLeft(s) == IF s # <<>> /\ Head(s) = " " THEN TrimLeft(Tail(s)) ELSE s
RECURSIVE TrimRight(_)
TrimRight(s) ==
    IF s # <<>> /\ s[Len(s)] = " " THEN TrimRight(SubSeq(s, 1, Len(s) - 1)) ELSE s
Trim(s) == TrimRight(TrimLeft(s))

RECURSIVE DigitsValue(_)
DigitsValue(s) ==
    IF s = <<>> THEN 0 ELSE 10 * DigitsValue(SubSeq(s, 1, Len(s) - 1)) + DigitVal(s[Len(s)])
RECURSIVE Pow10(_)
Pow10(n) == IF n = 0 THEN 1 ELSE 10 * Pow10(n - 1)

\* The unsigned decimal literal  digits [. digits*]  |  . digits
UnsignedDecimal(s) ==
    LET dots == {i \in 1..Len(s) : s[i] = "."}
        ip   == IF dots = {} THEN s ELSE SubSeq(s, 1, (CHOOSE i \in dots : TRUE) - 1)
        fp   == IF dots = {} THEN <<>>
                ELSE SubSeq(s, (CHOOSE i \in dots : TRUE) + 1, Len(s))
    IN  IF Cardinality(dots) > 1 THEN NaN
        ELSE IF \E i \in 1..Len(s) : s[i] # "." /\ ~IsDigit(s[i]) THEN NaN
        ELSE IF ip = <<>> /\ fp = <<>> THEN NaN
        ELSE Normalise(DigitsValue(ip) * Pow10(Len(fp)) + DigitsValue(fp), Pow10(Len(fp)))

\* Number(v) of a string-or-undefined v.  Number(undefined) is NaN, the
\* empty or blank string is 0, a signed decimal literal is its value and
\* anything else is NaN.
ToNumber(v) ==
    IF ~v.def THEN NaN
    ELSE LET t == Trim(v.s)
         IN  IF t = <<>> THEN Num(0)
             ELSE IF Head(t) = "-"
                  THEN LET u == UnsignedDecimal(Tail(t))
                       IN  IF u.nan THEN NaN ELSE [u EXCEPT !.num = 0 - u.num]
             ELSE IF Head(t) = "+" THEN UnsignedDecimal(Tail(t))
             ELSE UnsignedDecimal(t)

\* A resolver without the fallback: Number(v).
NumberWithoutFallback(v, dflt) == ToNumber(v)

\* Number(v) || dflt : NaN and 0 are falsy.
NumberOr(v, dflt) ==
    LET n == ToNumber(v) IN IF n.nan \/ n.num = 0 THEN Num(dflt) ELSE n

\* ----------------------------------------------------------- environment
\* Every process.env key the program reads (bin/app.ts and lib/ecs-stack.ts).
NumericSettings ==
    {"MAX_AZS", "ECS_CONTAINER_PORT", "ECS_DESIRED_COUNT", "ECS_TASK_CPU", "ECS_TASK_MEMORY"}
StringSettings ==
    {"AWS_REGION", "CDK_DEFAULT_ACCOUNT", "AWS_ACCOUNT_ID", "PROJECT_NAME", "VPC_CIDR",
     "ECR_REPO_NAME", "DB_NAME", "DB_ENGINE", "DB_ENGINE_VERSION", "DB_INSTANCE_CLASS",
     "DB_USERNAME", "COGNITO_USER_POOL_NAME", "COGNITO_APP_CLIENT_NAME",
     "CONTAINER_IMAGE_URI", "FRONTEND_DOMAIN", "FRONTEND_CERT_ARN", "BACKEND_CERT_ARN"}
Settings == NumericSettings \cup StringSettings

\* The override strings tried for a numeric setting:
\* "", "3", "-1", "0", "2.5", "abc", "3a", "4 ".
NumericOverrides ==
    {<<>>, <<"3">>, <<"-", "1">>, <<"0">>, <<"2", ".", "5">>, <<"a", "b", "c">>,
     <<"3", "a">>, <<"4", " ">>}

\* The override strings tried for the other settings.
Overrides(s) ==
    CASE s \in NumericSettings      -> NumericOverrides
      [] s = "AWS_REGION"           -> {<<>>, <<"eu-west-1">>}
      [] s = "CDK_DEFAULT_ACCOUNT"  -> {<<"111111111111">>}
      [] s = "AWS_ACCOUNT_ID"       -> {<<"222222222222">>}
      [] s = "PROJECT_NAME"         -> {<<>>, <<"shop">>}
      [] s = "VPC_CIDR"             -> {<<"172.16.0.0/16">>}
      [] s = "ECR_REPO_NAME"        -> {<<"images">>}
      [] s = "DB_NAME"              -> {<<"orders">>}
      [] s = "DB_ENGINE"            -> {<<"postgres">>, <<"aurora", "-mysql">>, <<"Postgres">>}
      [] s = "DB_ENGINE_VERSION"    -> {<<"5.7">>}
      [] s = "DB_INSTANCE_CLASS"    -> {<<"db", ".", "r5", ".", "large">>, <<"micro">>,
                                        <<"db", ".", "t3">>, <<"db", ".", "zz", ".", "micro">>}
      [] s = "DB_USERNAME"          -> {<<"root">>}
      [] s = "COGNITO_USER_POOL_NAME"  -> {<<"pool">>}
      [] s = "COGNITO_APP_CLIENT_NAME" -> {<<"client">>}
      [] s = "CONTAINER_IMAGE_URI"  -> {<<>>, <<"nginx:latest">>}
      [] s = "FRONTEND_DOMAIN"      -> {<<>>, <<"app.example.com">>}
      [] s = "FRONTEND_CERT_ARN"    -> {<<"arn:cert-frontend">>}
      [] s = "BACKEND_CERT_ARN"     -> {<<>>, <<"arn:cert-backend">>}

\* The environment in which nothing is set.
NoOverrides == [s \in Settings |-> Undefined]
\* The environments that set at most k settings.
RECURSIVE Envs(_)
Envs(k) ==
    IF k = 0 THEN {NoOverrides}
    ELSE LET prev == Envs(k - 1)
         IN  prev \cup UNION {UNION {{[e EXCEPT ![s] = Def(v)] : v \in Overrides(s)} :
                                      s \in Settings} : e \in prev}

\* ----------------------------------------------------------------- state
VARIABLES
    process_env,    \* the environment after config(): setting -> string or undefined
    pc,             \* index in ProgramOrder of the next statement of bin/app.ts
    depIdx,         \* index in DependencyCalls of the next addDependency call
    fault,          \* "none", or the error that ended the process
    envRead,        \* the reads of process.env so far: setting, reader, stacks built
    envRegion, envAccount, projectName,
    networkStack, ecrStack, databaseStack, authStack, ecsStack, frontendStack,
    order,          \* the components in the order their constructors ran
    consumed,       \* the output handles handed to constructors: [consumer, producer, handle]
    dependencies,   \* the addDependency edges: <<a, b>> is "a deploys after b"
    appOutputs,     \* the CfnOutputs declared on the app: name -> value
    run,            \* the number of this run of the process
    previous,       \* the graph the previous run of the process produced
    cloudAssembly   \* what this process has written out for deployment

vars == <<process_env, pc, depIdx, fault, envRead, envRegion, envAccount, projectName,
          networkStack, ecrStack, databaseStack, authStack, ecsStack, frontendStack,
          order, consumed, dependencies, appOutputs, run, previous, cloudAssembly>>

Components == {"Network", "Registry", "Database", "Identity", "Compute", "Edge"}

\* A stack variable before its const declaration has run.
NotCreated == [created |-> FALSE]
\* A reference to an object another stack owns.
Ref(owner, name) == [owner |-> owner, name |-> name]
\* A token numbered by the run that made it.
TokenOfRun(owner, attr) == <<"${Token[", owner, ".", attr, ToString(run), "]}">>

\* A value CloudFormation fills in at deploy time (a CDK token), as a string.
Token(owner, attr) == <<"${Token[", owner, ".", attr, "]}">>

\* Program orders with one statement moved: the database stack declared
\* before the network stack, and the auth stack declared after the ecs stack.
ProgramOrderDatabaseFirst ==
    <<"resolve", "database", "network", "ecr", "auth", "ecs", "frontend", "deps", "output">>
ProgramOrderAuthLate ==
    <<"resolve", "network", "ecr", "database", "ecs", "auth", "frontend", "deps", "output">>

\* The top-level statements of bin/app.ts, in program order.
\* The statements with the Registry stack built ahead of the Network stack.
ProgramOrderEcrFirst ==
    <<"resolve", "ecr", "network", "database", "auth", "ecs", "frontend", "deps", "output">>

ProgramOrder ==
    <<"resolve", "network", "ecr", "database", "auth", "ecs", "frontend", "deps", "output">>

Running == fault = "none" /\ pc <= Len(ProgramOrder)
Done == fault = "none" /\ pc > Len(ProgramOrder)
At(stmt) == Running /\ ProgramOrder[pc] = stmt

\* The stack variable of a component.
StackOf(c) ==
    CASE c = "Network"  -> networkStack
      [] c = "Registry" -> ecrStack
      [] c = "Database" -> databaseStack
      [] c = "Identity" -> authStack
      [] c = "Compute"  -> ecsStack
      [] c = "Edge"     -> frontendStack

\* What the process leaves behind: the stacks, the edges and the outputs.
Graph ==
    [stacks |-> [c \in Components |-> StackOf(c)], order |-> order,
     consumed |-> consumed, dependencies |-> dependencies, outputs |-> appOutputs,
     fault |-> fault]
NoGraph == [stacks |-> <<>>]

\* Nothing written out yet.
NotEmitted == [emitted |-> FALSE]

\* The state of a process that has just loaded its environment (line 12).
Fresh ==
    /\ pc = 1 /\ depIdx = 1 /\ fault = "none" /\ envRead = {}
    /\ envRegion = Undefined /\ envAccount = Undefined /\ projectName = Undefined
    /\ networkStack = NotCreated /\ ecrStack = NotCreated /\ databaseStack = NotCreated
    /\ authStack = NotCreated /\ ecsStack = NotCreated /\ frontendStack = NotCreated
    /\ order = <<>> /\ consumed = {} /\ dependencies = {} /\ appOutputs = <<>>
    /\ cloudAssembly = NotEmitted

Init ==
    /\ process_env \in Envs(MaxOverrides)
    /\ run = 1 /\ previous = NoGraph
    /\ Fresh

\* The reads of process.env one statement makes: which settings, who reads
\* them (the app script or a stack's constructor), and how many stacks were
\* instantiated before.
Reads(settings, reader) ==
    {[setting |-> s, reader |-> reader, instantiated |-> Len(order)] : s \in settings}

\* bin/app.ts 17-24: region, account and the name prefix.
ResolveEnv ==
    /\ At("resolve")
    /\ envRegion' = Def(OrElse(process_env["AWS_REGION"], <<"us-east-1">>))
    /\ envAccount' = Def(IF Truthy(process_env["CDK_DEFAULT_ACCOUNT"])
                         THEN process_env["CDK_DEFAULT_ACCOUNT"].s
                         ELSE OrElse(process_env["AWS_ACCOUNT_ID"], <<"<YOUR-AWS-ACCOUNT-ID>">>))
    /\ projectName' = Def(OrElse(process_env["PROJECT_NAME"], <<"webapp-core">>))
    /\ envRead' = envRead \cup
          Reads({"AWS_REGION", "CDK_DEFAULT_ACCOUNT", "PROJECT_NAME"}
                   \cup (IF Truthy(process_env["CDK_DEFAULT_ACCOUNT"]) THEN {}
                         ELSE {"AWS_ACCOUNT_ID"}), "app")
    /\ pc' = pc + 1
    /\ UNCHANGED <<process_env, depIdx, fault, networkStack, ecrStack, databaseStack,
                   authStack, ecsStack, frontendStack, order, consumed, dependencies,
                   appOutputs, run, previous,
                   cloudAssembly>>

\* The env object of line 21, handed to every stack.
Env == [account |-> envAccount.s, region |-> envRegion.s]

\* The process dies with an uncaught error.
Throw(err, reads) ==
    /\ fault' = err
    /\ envRead' = envRead \cup Reads(reads, "app")
    /\ UNCHANGED <<process_env, pc, depIdx, envRegion, envAccount, projectName,
                   networkStack, ecrStack, databaseStack, authStack, ecsStack,
                   frontendStack, order, consumed, dependencies, appOutputs, run, previous,
                   cloudAssembly>>

\* The variables no constructor statement touches.
ConstructorFrame ==
    UNCHANGED <<process_env, depIdx, fault, envRegion, envAccount, projectName,
                dependencies, appOutputs, run, previous,
                   cloudAssembly>>

\* A VPC with a single NAT gateway whatever the AZ count.
NetworkVpcOneNat(pn, cidr, maxAzs) ==
    [id |-> pn \o <<"-VPC">>, cidr |-> cidr, maxAzs |-> maxAzs,
     subnetConfiguration |-> <<"Public", "Application", "Database">>,
     natGateways |-> Num(1)]

\* network-stack.ts 21-42: the VPC the Network stack declares.
NetworkVpc(pn, cidr, maxAzs) ==
    [id |-> pn \o <<"-VPC">>, cidr |-> cidr, maxAzs |-> maxAzs,
     subnetConfiguration |-> <<"Public", "Application", "Database">>,
     natGateways |-> maxAzs]

\* network-stack.ts 15-94: new NetworkStack(scope, id, props).
NetworkStack(id, props) ==
    [created |-> TRUE, id |-> id, env |-> props.env, props |-> props,
     vpc |-> NetworkVpc(props.projectName, props.cidr, props.maxAzs),
     vpcEndpointsSecurityGroup |->
        [id |-> props.projectName \o <<"-EndpointsSG">>, vpc |-> Ref("Network", "vpc")],
     gatewayEndpoints |-> {props.projectName \o <<"-S3Endpoint">>},
     interfaceEndpoints |->
        {props.projectName \o <<"-ECR-ApiEndpoint">>,
         props.projectName \o <<"-ECR-DockerEndpoint">>,
         props.projectName \o <<"-CloudWatchEndpoint">>,
         props.projectName \o <<"-SecretsManagerEndpoint">>}]

\* bin/app.ts 27-32
NewNetworkStack ==
    /\ At("network")
    /\ IF ~projectName.def THEN Throw("ReferenceError", {})
       ELSE /\ networkStack' = NetworkStack(projectName.s \o <<"-NetworkStack">>,
                  [env |-> Env, projectName |-> projectName.s,
                   cidr |-> OrElse(process_env["VPC_CIDR"], <<"10.0.0.0/16">>),
                   maxAzs |-> NumberOr(process_env["MAX_AZS"], 2)])
            /\ envRead' = envRead \cup Reads({"VPC_CIDR", "MAX_AZS"}, "app")
            /\ order' = Append(order, "Network")
            /\ pc' = pc + 1
            /\ ConstructorFrame
            /\ UNCHANGED <<ecrStack, databaseStack, authStack, ecsStack, frontendStack,
                           consumed>>

\* ecr-stack.ts 13-29: new EcrStack(scope, id, props).
EcrStack(id, props) ==
    [created |-> TRUE, id |-> id, env |-> props.env, props |-> props,
     repository |-> [id |-> props.projectName \o <<"-EcrRepo">>,
                     repositoryName |-> props.repoName, imageScanOnPush |-> TRUE],
     outputs |-> [EcrRepoUri |-> Token("Registry", "repository.repositoryUri")]]

\* bin/app.ts 34-38
NewEcrStack ==
    /\ At("ecr")
    /\ IF ~projectName.def THEN Throw("ReferenceError", {})
       ELSE /\ ecrStack' = EcrStack(projectName.s \o <<"-ECRStack">>,
                  [env |-> Env, projectName |-> projectName.s,
                   repoName |-> OrElse(process_env["ECR_REPO_NAME"],
                                       projectName.s \o <<"-app", "-repo">>)])
            /\ envRead' = envRead \cup Reads({"ECR_REPO_NAME"}, "app")
            /\ order' = Append(order, "Registry")
            /\ pc' = pc + 1
            /\ ConstructorFrame
            /\ UNCHANGED <<networkStack, databaseStack, authStack, ecsStack, frontendStack,
                           consumed>>

\* ---------------------------------------------------------------- strings
\* String.prototype.toLowerCase / toUpperCase, token by token.
LowerToken(tok) ==
    CASE tok = "Postgres" -> "postgres"
      [] OTHER -> tok
UpperToken(tok) ==
    CASE tok = "db" -> "DB" [] tok = "t3" -> "T3" [] tok = "r5" -> "R5"
      [] tok = "zz" -> "ZZ" [] tok = "micro" -> "MICRO" [] tok = "large" -> "LARGE"
      [] OTHER -> tok
ToLowerCase(str) == [i \in 1..Len(str) |-> LowerToken(str[i])]
ToUpperCase(str) == [i \in 1..Len(str) |-> UpperToken(str[i])]
\* str.includes(word) for a one-token word.
Includes(str, word) == \E i \in 1..Len(str) : str[i] = word

\* str.split('.'): the pieces between the "." tokens.
RECURSIVE Split(_)
Split(str) ==
    IF \A i \in 1..Len(str) : str[i] # "." THEN <<str>>
    ELSE LET d == CHOOSE i \in 1..Len(str) :
                      str[i] = "." /\ \A j \in 1..(i - 1) : str[j] # "."
         IN  <<SubSeq(str, 1, d - 1)>> \o Split(SubSeq(str, d + 1, Len(str)))
\* arr[i] with JS's zero-based index: undefined past the end.
AtIndex(arr, i) == IF i + 1 <= Len(arr) THEN Def(arr[i + 1]) ELSE Undefined

\* ec2.InstanceClass[key] and ec2.InstanceSize[key]: the enum member of that
\* name, undefined for a name the enum does not have.
InstanceClass(key) ==
    CASE key = <<"T3">> -> Def(<<"t3">>) [] key = <<"R5">> -> Def(<<"r5">>)
      [] key = <<"M5">> -> Def(<<"m5">>) [] OTHER -> Undefined
InstanceSize(key) ==
    CASE key = <<"MICRO">> -> Def(<<"micro">>) [] key = <<"SMALL">> -> Def(<<"small">>)
      [] key = <<"LARGE">> -> Def(<<"large">>) [] OTHER -> Undefined

\* --------------------------------------------------------------- database
\* auth-stack.ts 117-127: the engine chosen for a DB_ENGINE string.
DatabaseEngine(dbEngine) ==
    IF Includes(ToLowerCase(dbEngine), "postgres")
    THEN [engineType |-> "postgres", version |-> "VER_13_4"]
    ELSE IF Includes(ToLowerCase(dbEngine), "aurora")
    THEN [engineType |-> "aurora-mysql", version |-> "VER_3_03_0"]
    ELSE [engineType |-> "mysql", version |-> "VER_8_0_28"]

\* auth-stack.ts 134-138: does parsing the instance class throw?  It does when
\* split('.')[1] or split('.')[2] is undefined (toUpperCase of undefined).
InstanceTypeThrows(dbInstanceClass) ==
    \/ ~AtIndex(Split(dbInstanceClass), 1).def
    \/ ~AtIndex(Split(dbInstanceClass), 2).def

\* auth-stack.ts 134-138: ec2.InstanceType.of(class || T3, size || MICRO).
InstanceType(dbInstanceClass) ==
    LET parts == Split(dbInstanceClass)
    IN  [class |-> OrElse(InstanceClass(ToUpperCase(AtIndex(parts, 1).s)), <<"t3">>),
         size  |-> OrElse(InstanceSize(ToUpperCase(AtIndex(parts, 2).s)), <<"micro">>)]

\* auth-stack.ts 84-158: new DatabaseStack(scope, id, props), when it returns.
DatabaseStack(id, props) ==
    [created |-> TRUE, id |-> id, env |-> props.env, props |-> props,
     dbSecurityGroup |-> [id |-> props.projectName \o <<"-DB-SG">>, vpc |-> props.vpc,
                          allowAllOutbound |-> TRUE, ingress |-> {}],
     kmsKey |-> [id |-> props.projectName \o <<"-DB-KMSKey">>,
                 alias |-> ToLowerCase(props.projectName) \o <<"-rds-key">>],
     dbSecret |-> [id |-> props.projectName \o <<"-DBCredentials">>,
                   username |-> props.dbUsername, generateStringKey |-> "password"],
     dbInstance |-> [id |-> props.projectName \o <<"-Database">>,
                     engine |-> DatabaseEngine(props.dbEngine),
                     vpc |-> props.vpc, subnetGroupName |-> "Database",
                     instanceType |-> InstanceType(props.dbInstanceClass),
                     credentials |-> Ref("Database", "dbSecret"),
                     securityGroups |-> {Ref("Database", "dbSecurityGroup")},
                     databaseName |-> props.dbName],
     outputs |-> [DatabaseEndpoint |-> Token("Database", "dbInstance.socketAddress"),
                  DatabaseSecretName |-> Token("Database", "dbSecret.secretName")]]

\* The settings lines 45-49 read.
DatabaseSettings ==
    {"DB_NAME", "DB_ENGINE", "DB_ENGINE_VERSION", "DB_INSTANCE_CLASS", "DB_USERNAME"}

\* The output handles lines 41-50 hand to the Database stack.
DatabaseInputs == {[consumer |-> "Database", producer |-> "Network", handle |-> "vpc"]}

\* bin/app.ts 41-50
NewDatabaseStack ==
    /\ At("database")
    /\ LET dbInstanceClass == OrElse(process_env["DB_INSTANCE_CLASS"],
                                     <<"db", ".", "t3", ".", "micro">>)
       IN  IF \E h \in DatabaseInputs : ~StackOf(h.producer).created
           THEN Throw("ReferenceError", {})
           ELSE IF InstanceTypeThrows(dbInstanceClass)
           THEN Throw("TypeError", DatabaseSettings)
           ELSE /\ databaseStack' = DatabaseStack(projectName.s \o <<"-DatabaseStack">>,
                      [env |-> Env, projectName |-> projectName.s,
                       vpc |-> Ref("Network", "vpc"),
                       dbName |-> OrElse(process_env["DB_NAME"], <<"appdb">>),
                       dbEngine |-> OrElse(process_env["DB_ENGINE"], <<"mysql">>),
                       dbEngineVersion |-> OrElse(process_env["DB_ENGINE_VERSION"], <<"8.0">>),
                       dbInstanceClass |-> dbInstanceClass,
                       dbUsername |-> OrElse(process_env["DB_USERNAME"], <<"admin">>)])
                /\ envRead' = envRead \cup Reads(DatabaseSettings, "app")
                /\ consumed' = consumed \cup DatabaseInputs
                /\ order' = Append(order, "Database")
                /\ pc' = pc + 1
                /\ ConstructorFrame
                /\ UNCHANGED <<networkStack, ecrStack, authStack, ecsStack, frontendStack>>

\* ------------------------------------------------------------------- auth
\* auth-stack.ts 15-58: new AuthStack(scope, id, props).
AuthStack(id, props) ==
    [created |-> TRUE, id |-> id, env |-> props.env, props |-> props,
     userPool |-> [id |-> <<"UserPool">>, userPoolName |-> props.userPoolName],
     userPoolClient |-> [id |-> <<"UserPoolClient">>, clientName |-> props.webClientName,
                         userPool |-> Ref("Identity", "userPool")],
     outputs |-> [CognitoUserPoolId |-> Token("Identity", "userPool.userPoolId"),
                  CognitoUserPoolClientId |->
                      Token("Identity", "userPoolClient.userPoolClientId")]]

\* bin/app.ts 53-58
NewAuthStack ==
    /\ At("auth")
    /\ IF ~projectName.def THEN Throw("ReferenceError", {})
       ELSE /\ authStack' = AuthStack(projectName.s \o <<"-AuthStack">>,
                  [env |-> Env, projectName |-> projectName.s,
                   userPoolName |-> OrElse(process_env["COGNITO_USER_POOL_NAME"],
                                           projectName.s \o <<"-users">>),
                   webClientName |-> OrElse(process_env["COGNITO_APP_CLIENT_NAME"],
                                            projectName.s \o <<"-web", "-client">>)])
            /\ envRead' = envRead \cup Reads({"COGNITO_USER_POOL_NAME", "COGNITO_APP_CLIENT_NAME"}, "app")
            /\ order' = Append(order, "Identity")
            /\ pc' = pc + 1
            /\ ConstructorFrame
            /\ UNCHANGED <<networkStack, ecrStack, databaseStack, ecsStack, frontendStack,
                           consumed>>

\* -------------------------------------------------------------------- ecs
\* ecs-stack.ts 55-57: the container image.  No code of the repository sets
\* the context key 'ecrRepo', so tryGetContext yields undefined and the
\* repository handed to fromEcrRepository is the empty object.
ContainerImage(taskImage) ==
    IF Truthy(taskImage) THEN [from |-> "fromRegistry", name |-> taskImage.s]
    ELSE [from |-> "fromEcrRepository", name |-> <<"{}">>]

\* ecs-stack.ts 100-110 and 136-157: the ingress rules of the load balancer's
\* security group and the listener, for the BACKEND_CERT_ARN of the environment.
CloudFrontPrefixList == <<"pl-3b927c52">>
\* The rules with the HTTP port opened to every IPv4 address when there is no
\* certificate.
AlbIngressAnyIpv4(certArn) ==
    {[peer |-> CloudFrontPrefixList, port |-> Num(443)]}
    \cup (IF Truthy(certArn) THEN {}
          ELSE {[peer |-> <<"0.0.0.0/0">>, port |-> Num(80)]})

AlbIngress(certArn) ==
    {[peer |-> CloudFrontPrefixList, port |-> Num(443)]}
    \cup (IF Truthy(certArn) THEN {}
          ELSE {[peer |-> CloudFrontPrefixList, port |-> Num(80)]})
AlbListener(certArn) ==
    IF Truthy(certArn)
    THEN [id |-> "HttpsListener", port |-> Num(443), certificates |-> {certArn.s},
          open |-> FALSE]
    ELSE [id |-> "HttpListener", port |-> Num(80), certificates |-> {}, open |-> FALSE]

\* ecs-stack.ts 60-79: the container's environment and secrets.
ContainerEnvironment(props) ==
    [DB_HOST |-> Token(props.dbSecurityGroup.owner, "dbSecurityGroup.securityGroupId"),
     DB_NAME |-> Token(props.dbSecret.owner, "dbSecret.username"),
     DB_USER |-> Token(props.dbSecret.owner, "dbSecret.username")]

\* A rule that admits the load balancer's group instead of the tasks' group.
DbIngressRuleFromAlb == [peer |-> Ref("Compute", "albSecurityGroup"), port |-> Num(3306)]

\* ecs-stack.ts 192-197: the rule the constructor adds to the security group
\* it was handed.
DbIngressRule == [peer |-> Ref("Compute", "ecsSecurityGroup"), port |-> Num(3306)]

\* ecs-stack.ts 26-205: new EcsStack(scope, id, props); the constructor reads
\* BACKEND_CERT_ARN from the environment itself.
EcsStack(id, props) ==
    [created |-> TRUE, id |-> id, env |-> props.env, props |-> props,
     cluster |-> [id |-> props.projectName \o <<"-EcsCluster">>, vpc |-> props.vpc,
                  clusterName |-> props.clusterName],
     taskRole |-> [id |-> props.projectName \o <<"-TaskRole">>,
                   grants |-> {[action |-> "read", resource |-> props.dbSecret]}],
     taskDef |-> [id |-> props.projectName \o <<"-TaskDef">>,
                  memoryLimitMiB |-> props.memory, cpu |-> props.cpu],
     container |-> [id |-> props.projectName \o <<"-AppContainer">>,
                    image |-> ContainerImage(props.taskImage),
                    memoryLimitMiB |-> props.memory, cpu |-> props.cpu,
                    environment |-> ContainerEnvironment(props),
                    secrets |-> [DB_PASSWORD |-> props.dbSecret],
                    portMappings |-> {props.containerPort}],
     ecsSecurityGroup |-> [id |-> props.projectName \o <<"-App-SG">>, vpc |-> props.vpc,
                           ingress |-> {[peer |-> Ref("Compute", "albSecurityGroup"),
                                         port |-> props.containerPort]}],
     albSecurityGroup |-> [id |-> props.projectName \o <<"-ALB-SG">>, vpc |-> props.vpc,
                           ingress |-> AlbIngress(process_env["BACKEND_CERT_ARN"]),
                           egress |-> {[peer |-> Ref("Compute", "ecsSecurityGroup"),
                                        port |-> props.containerPort]}],
     alb |-> [id |-> props.projectName \o <<"-ALB">>, internetFacing |-> TRUE,
              loadBalancerName |-> props.projectName \o <<"-alb">>],
     listener |-> AlbListener(process_env["BACKEND_CERT_ARN"]),
     targetGroup |-> [id |-> props.projectName \o <<"-TG">>, port |-> props.containerPort,
                      protocol |-> "HTTP", healthCheckPath |-> "/health"],
     service |-> [id |-> props.projectName \o <<"-Service">>,
                  desiredCount |-> props.desiredCount, subnetGroupName |-> "Application",
                  assignPublicIp |-> FALSE],
     albDomain |-> Token("Compute", "alb.loadBalancerDnsName"),
     outputs |-> [AlbDNS |-> Token("Compute", "alb.loadBalancerDnsName")]]

\* The settings lines 66-70 read, and the one the constructor reads.
EcsSettings ==
    {"CONTAINER_IMAGE_URI", "ECS_CONTAINER_PORT", "ECS_DESIRED_COUNT", "ECS_TASK_CPU",
     "ECS_TASK_MEMORY"}

\* The output handles lines 61-73 hand to the Compute stack.
EcsInputs ==
    {[consumer |-> "Compute", producer |-> "Network", handle |-> "vpc"],
     [consumer |-> "Compute", producer |-> "Database", handle |-> "dbSecret"],
     [consumer |-> "Compute", producer |-> "Database", handle |-> "dbSecurityGroup"]}

\* bin/app.ts 61-73
NewEcsStack ==
    /\ At("ecs")
    /\ IF \E h \in EcsInputs : ~StackOf(h.producer).created
       THEN Throw("ReferenceError", {})
       ELSE /\ ecsStack' = EcsStack(projectName.s \o <<"-EcsStack">>,
                  [env |-> Env, projectName |-> projectName.s,
                   vpc |-> Ref("Network", "vpc"),
                   clusterName |-> projectName.s \o <<"-cluster">>,
                   taskImage |-> OrUndefined(process_env["CONTAINER_IMAGE_URI"]),
                   containerPort |-> NumberOr(process_env["ECS_CONTAINER_PORT"], 80),
                   desiredCount |-> NumberOr(process_env["ECS_DESIRED_COUNT"], 2),
                   cpu |-> NumberOr(process_env["ECS_TASK_CPU"], 256),
                   memory |-> NumberOr(process_env["ECS_TASK_MEMORY"], 512),
                   dbSecret |-> Ref("Database", "dbSecret"),
                   dbSecurityGroup |-> Ref("Database", "dbSecurityGroup")])
            /\ databaseStack' =
                  [databaseStack EXCEPT !.dbSecurityGroup.ingress = @ \cup {DbIngressRule}]
            /\ envRead' = envRead \cup Reads(EcsSettings, "app")
                                   \cup Reads({"BACKEND_CERT_ARN"}, "Compute")
            /\ consumed' = consumed \cup EcsInputs
            /\ order' = Append(order, "Compute")
            /\ pc' = pc + 1
            /\ ConstructorFrame
            /\ UNCHANGED <<networkStack, ecrStack, authStack, frontendStack>>

\* --------------------------------------------------------------- frontend
\* frontend-stack.ts 88-95: the protocol CloudFront speaks to the load balancer.
OriginProtocolPolicy(albHttpsPort) ==
    IF albHttpsPort = Num(443) THEN "HTTPS_ONLY" ELSE "HTTP_ONLY"

\* A URL output that gives the generated address without a scheme.
CloudFrontURLWithoutScheme(cloudFrontDomain, domainName) ==
    IF Truthy(cloudFrontDomain) THEN <<"https://">> \o cloudFrontDomain.s
    ELSE domainName

\* frontend-stack.ts 141-145: the stack's own URL output.
CloudFrontURL(cloudFrontDomain, domainName) ==
    IF Truthy(cloudFrontDomain) THEN <<"https://">> \o cloudFrontDomain.s
    ELSE <<"https://">> \o domainName

\* frontend-stack.ts 22-146: new FrontendStack(scope, id, props).
FrontendStack(id, props) ==
    [created |-> TRUE, id |-> id, env |-> props.env, props |-> props,
     siteBucket |-> [id |-> props.projectName \o <<"-FrontendBucket">>,
                     bucketName |-> props.bucketName, blockPublicAccess |-> TRUE],
     webACL |-> [id |-> props.projectName \o <<"-WebACL">>, scope |-> "CLOUDFRONT"],
     albOrigin |-> [domain |-> props.albDomain,
                    protocolPolicy |-> OriginProtocolPolicy(props.albHttpsPort)],
     cloudFrontDistribution |->
        [id |-> props.projectName \o <<"-CloudFront">>,
         domainName |-> Token("Edge", "cloudFrontDistribution.domainName"),
         domainNames |-> IF Truthy(props.cloudFrontDomain)
                         THEN {props.cloudFrontDomain.s} ELSE {},
         certificate |-> OrUndefined(props.cloudFrontCertArn)],
     outputs |-> [CloudFrontURL |->
                    CloudFrontURL(props.cloudFrontDomain,
                                  Token("Edge", "cloudFrontDistribution.domainName"))]]

\* The inputs of an Edge stack that is also handed the Identity stack's user pool.
FrontendInputsWithUserPool ==
    {[consumer |-> "Edge", producer |-> "Compute", handle |-> "albDomain"],
     [consumer |-> "Edge", producer |-> "Identity", handle |-> "userPool"]}

\* The output handles lines 76-85 hand to the Edge stack.
FrontendInputs == {[consumer |-> "Edge", producer |-> "Compute", handle |-> "albDomain"]}

\* bin/app.ts 76-85
NewFrontendStack ==
    /\ At("frontend")
    /\ IF \E h \in FrontendInputs : ~StackOf(h.producer).created
       THEN Throw("ReferenceError", {})
       ELSE /\ frontendStack' = FrontendStack(projectName.s \o <<"-FrontendStack">>,
                  [env |-> Env, projectName |-> projectName.s,
                   bucketName |-> projectName.s \o <<"-frontend-bucket">>,
                   albDomain |-> ecsStack.albDomain,
                   albHttpsPort |-> Num(443),
                   cloudFrontDomain |-> OrUndefined(process_env["FRONTEND_DOMAIN"]),
                   cloudFrontCertArn |-> OrUndefined(process_env["FRONTEND_CERT_ARN"])])
            /\ envRead' = envRead \cup Reads({"FRONTEND_DOMAIN", "FRONTEND_CERT_ARN"}, "app")
            /\ consumed' = consumed \cup FrontendInputs
            /\ order' = Append(order, "Edge")
            /\ pc' = pc + 1
            /\ ConstructorFrame
            /\ UNCHANGED <<networkStack, ecrStack, databaseStack, authStack, ecsStack>>

\* ----------------------------------------------------------- dependencies
\* The calls with the first one turned round (databaseStack.addDependency(ecsStack)),
\* and the calls with the third one (Database after Network) left out.
DependencyCallsReversed ==
    <<<<"Database", "Compute">>, <<"Compute", "Network">>, <<"Database", "Network">>,
      <<"Edge", "Compute">>, <<"Edge", "Network">>, <<"Edge", "Identity">>>>
DependencyCallsWithoutDatabase ==
    <<<<"Compute", "Database">>, <<"Compute", "Network">>,
      <<"Edge", "Compute">>, <<"Edge", "Network">>, <<"Edge", "Identity">>>>

\* bin/app.ts 88-93: the addDependency calls, <<a, b>> for a.addDependency(b).
DependencyCalls ==
    <<<<"Compute", "Database">>, <<"Compute", "Network">>, <<"Database", "Network">>,
      <<"Edge", "Compute">>, <<"Edge", "Network">>, <<"Edge", "Identity">>>>

\* One addDependency call of lines 88-93.
AddDependency ==
    /\ At("deps")
    /\ depIdx <= Len(DependencyCalls)
    /\ LET call == DependencyCalls[depIdx]
       IN  IF ~StackOf(call[1]).created \/ ~StackOf(call[2]).created
           THEN Throw("ReferenceError", {})
           ELSE /\ dependencies' = dependencies \cup {call}
                /\ IF depIdx = Len(DependencyCalls)
                   THEN pc' = pc + 1 /\ depIdx' = depIdx
                   ELSE pc' = pc /\ depIdx' = depIdx + 1
                /\ UNCHANGED <<process_env, fault, envRead, envRegion, envAccount,
                               projectName, networkStack, ecrStack, databaseStack,
                               authStack, ecsStack, frontendStack, order, consumed,
                               appOutputs, run, previous,
                   cloudAssembly>>

\* ------------------------------------------------------------ FrontendURL
\* An output that ignores the custom domain.
FrontendURLGenerated(frontendDomain, domainName) == domainName

\* bin/app.ts 97-99: the value of the FrontendURL output.
FrontendURL(frontendDomain, domainName) ==
    IF Truthy(frontendDomain) THEN <<"https://">> \o frontendDomain.s ELSE domainName

\* bin/app.ts 96-101
NewFrontendURLOutput ==
    /\ At("output")
    /\ IF ~Truthy(process_env["FRONTEND_DOMAIN"]) /\ ~frontendStack.created
       THEN Throw("ReferenceError", {"FRONTEND_DOMAIN"})
       ELSE /\ appOutputs' =
                  [FrontendURL |->
                     FrontendURL(process_env["FRONTEND_DOMAIN"],
                                 IF frontendStack.created
                                 THEN frontendStack.cloudFrontDistribution.domainName
                                 ELSE <<>>)]
            /\ consumed' = consumed \cup
                  (IF Truthy(process_env["FRONTEND_DOMAIN"]) THEN {}
                   ELSE {[consumer |-> "App", producer |-> "Edge",
                          handle |-> "cloudFrontDistribution"]})
            /\ envRead' = envRead \cup Reads({"FRONTEND_DOMAIN"}, "app")
            /\ pc' = pc + 1
            /\ UNCHANGED <<process_env, depIdx, fault, envRegion, envAccount, projectName,
                           networkStack, ecrStack, databaseStack, authStack, ecsStack,
                           frontendStack, order, dependencies, run, previous,
                   cloudAssembly>>

\* ------------------------------------------------------------------ rerun
\* Writes the graph out wherever the process stopped, a fault included.
SynthAfterFault ==
    /\ ~Running
    /\ ~cloudAssembly.emitted
    /\ cloudAssembly' = [emitted |-> TRUE, graph |-> Graph]
    /\ UNCHANGED <<process_env, pc, depIdx, fault, envRead, envRegion, envAccount,
                   projectName, networkStack, ecrStack, databaseStack, authStack,
                   ecsStack, frontendStack, order, consumed, dependencies, appOutputs,
                   run, previous>>

\* bin/app.ts 14 and README 251 (npx cdk synth): the app writes its graph out
\* when the script has run to its end; an uncaught error ends the process
\* before that.
Synth ==
    /\ Done
    /\ ~cloudAssembly.emitted
    /\ cloudAssembly' = [emitted |-> TRUE, graph |-> Graph]
    /\ UNCHANGED <<process_env, pc, depIdx, fault, envRead, envRegion, envAccount,
                   projectName, networkStack, ecrStack, databaseStack, authStack,
                   ecsStack, frontendStack, order, consumed, dependencies, appOutputs,
                   run, previous>>

\* The process has ended; it is started again on the same environment.
Rerun ==
    /\ fault # "none" \/ cloudAssembly.emitted
    /\ run < MaxRuns
    /\ cloudAssembly' = NotEmitted
    /\ previous' = Graph
    /\ run' = run + 1
    /\ process_env' = process_env
    /\ pc' = 1 /\ depIdx' = 1 /\ fault' = "none" /\ envRead' = {}
    /\ envRegion' = Undefined /\ envAccount' = Undefined /\ projectName' = Undefined
    /\ networkStack' = NotCreated /\ ecrStack' = NotCreated /\ databaseStack' = NotCreated
    /\ authStack' = NotCreated /\ ecsStack' = NotCreated /\ frontendStack' = NotCreated
    /\ order' = <<>> /\ consumed' = {} /\ dependencies' = {} /\ appOutputs' = <<>>

Next ==
    \/ ResolveEnv
    \/ NewNetworkStack
    \/ NewEcrStack
    \/ NewDatabaseStack
    \/ NewAuthStack
    \/ NewEcsStack
    \/ NewFrontendStack
    \/ AddDependency
    \/ NewFrontendURLOutput
    \/ Synth
    \/ Rerun

Spec == Init /\ [][Next]_vars

\* ================================================================= claims
\* Is component c among the instantiated ones, and where.
Instantiated(c) == \E i \in 1..Len(order) : order[i] = c
Position(c) == CHOOSE i \in 1..Len(order) : order[i] = c
\* The handles component c was handed.
InputsOf(c) == {h \in consumed : h.consumer = c}
\* The data-dependency edges between components: <<consumer, producer>>.
DataEdges == {<<h.consumer, h.producer>> : h \in {g \in consumed : g.consumer \in Components}}

\* C1: at every step of the construction pass a component reads an output
\* handle only of a component instantiated before it: no statement faults on
\* a stack that does not exist yet, Database is handed Network's VPC, Compute
\* is handed Network's VPC and Database's secret and security group, Edge is
\* handed Compute's load-balancer address, and Database is handed nothing of
\* Compute.
C1_NoForwardReference ==
    /\ fault # "ReferenceError"
    /\ \A h \in consumed :
          /\ Instantiated(h.producer)
          /\ h.consumer \in Components =>
                /\ Instantiated(h.consumer)
                /\ Position(h.producer) < Position(h.consumer)
    /\ databaseStack.created =>
          /\ InputsOf("Database") = {[consumer |-> "Database", producer |-> "Network",
                                      handle |-> "vpc"]}
          /\ databaseStack.props.vpc = Ref("Network", "vpc")
          /\ networkStack.created
    /\ ecsStack.created =>
          /\ {<<h.producer, h.handle>> : h \in InputsOf("Compute")} =
                {<<"Network", "vpc">>, <<"Database", "dbSecret">>,
                 <<"Database", "dbSecurityGroup">>}
          /\ ecsStack.props.vpc = Ref("Network", "vpc")
          /\ ecsStack.props.dbSecret = Ref("Database", "dbSecret")
          /\ ecsStack.props.dbSecurityGroup = Ref("Database", "dbSecurityGroup")
          /\ networkStack.created /\ databaseStack.created
    /\ frontendStack.created =>
          /\ {<<h.producer, h.handle>> : h \in InputsOf("Edge")} = {<<"Compute", "albDomain">>}
          /\ ecsStack.created
          /\ frontendStack.props.albDomain = ecsStack.albDomain
    /\ ~\E h \in consumed : h.consumer = "Database" /\ h.producer = "Compute"

\* C1's case: the pass is over and all three consumers have read their handles.
C1_Witness ==
    /\ Done
    /\ InputsOf("Database") # {} /\ InputsOf("Compute") # {} /\ InputsOf("Edge") # {}

\* The pairs joined by a path of one to six edges of the edge set E.
RECURSIVE ReachesWithin(_, _)
ReachesWithin(E, n) ==
    IF n = 1 THEN E
    ELSE LET R == ReachesWithin(E, n - 1)
         IN  R \cup {<<p[1][1], p[2][2]>> : p \in {q \in R \X E : q[1][2] = q[2][1]}}
Reaches(E) == ReachesWithin(E, Cardinality(Components))
Acyclic(E) == \A c \in Components : <<c, c>> \notin Reaches(E)

\* C2: the graph of the addDependency edges together with the
\* data-dependency edges between the six components has no cycle, in every
\* state of the construction pass (after every prefix of it) and at its end.
C2_GraphAcyclic == Acyclic(dependencies \cup DataEdges)

\* C2's case: all six addDependency calls are made, on top of the data edges.
C2_Witness ==
    /\ Done
    /\ Cardinality(dependencies) = 6
    /\ Cardinality(DataEdges) = 4
    /\ <<"Edge", "Network">> \in Reaches(dependencies \cup DataEdges)

\* C3 as the specification words it: the FrontendURL output equals the custom
\* domain when FRONTEND_DOMAIN is configured (non-empty), and the Edge
\* component's generated distribution address when it is not.
C3_OutputIsDomain ==
    Done =>
       appOutputs.FrontendURL =
          IF Truthy(process_env["FRONTEND_DOMAIN"]) THEN process_env["FRONTEND_DOMAIN"].s
          ELSE frontendStack.cloudFrontDistribution.domainName

\* C3, amended: the FrontendURL output is "https://" followed by the custom
\* domain when FRONTEND_DOMAIN is configured (non-empty), and is exactly the
\* Edge component's generated distribution address when it is not.
C3_OutputIsUrlOrGenerated ==
    Done =>
       /\ Truthy(process_env["FRONTEND_DOMAIN"]) =>
             /\ Len(appOutputs.FrontendURL) = Len(process_env["FRONTEND_DOMAIN"].s) + 1
             /\ Head(appOutputs.FrontendURL) = "https://"
             /\ Tail(appOutputs.FrontendURL) = process_env["FRONTEND_DOMAIN"].s
       /\ ~Truthy(process_env["FRONTEND_DOMAIN"]) =>
             /\ appOutputs.FrontendURL = frontendStack.cloudFrontDistribution.domainName
             /\ appOutputs.FrontendURL = <<"${Token[", "Edge", ".",
                                          "cloudFrontDistribution.domainName", "]}">>

\* C3's case: the output is declared with a custom domain configured.
C3_Witness ==
    /\ Done
    /\ process_env["FRONTEND_DOMAIN"] = Def(<<"app.example.com">>)
    /\ appOutputs.FrontendURL = <<"https://", "app.example.com">>

\* The settings C4 lists, and the value the README's .env.example gives each.
SupportedSettings ==
    {"AWS_REGION", "PROJECT_NAME", "VPC_CIDR", "MAX_AZS", "DB_ENGINE", "DB_ENGINE_VERSION",
     "DB_INSTANCE_CLASS", "DB_NAME", "DB_USERNAME", "ECR_REPO_NAME", "ECS_DESIRED_COUNT",
     "ECS_TASK_CPU", "ECS_TASK_MEMORY", "ECS_CONTAINER_PORT", "COGNITO_USER_POOL_NAME",
     "COGNITO_APP_CLIENT_NAME"}
EnvExample(s) ==
    CASE s = "AWS_REGION"         -> <<"us-east-1">>
      [] s = "PROJECT_NAME"       -> <<"webapp-core">>
      [] s = "VPC_CIDR"           -> <<"10.0.0.0/16">>
      [] s = "MAX_AZS"            -> <<"2">>
      [] s = "DB_ENGINE"          -> <<"mysql">>
      [] s = "DB_ENGINE_VERSION"  -> <<"8.0", ".28">>
      [] s = "DB_INSTANCE_CLASS"  -> <<"db", ".", "t3", ".", "micro">>
      [] s = "DB_NAME"            -> <<"appdb">>
      [] s = "DB_USERNAME"        -> <<"admin">>
      [] s = "ECR_REPO_NAME"      -> <<"webapp-core", "-app">>
      [] s = "ECS_DESIRED_COUNT"  -> <<"2">>
      [] s = "ECS_TASK_CPU"       -> <<"2", "5", "6">>
      [] s = "ECS_TASK_MEMORY"    -> <<"5", "1", "2">>
      [] s = "ECS_CONTAINER_PORT" -> <<"8", "0">>
      [] s = "COGNITO_USER_POOL_NAME"  -> <<"webapp-core", "-users">>
      [] s = "COGNITO_APP_CLIENT_NAME" -> <<"webapp-core", "-web">>

\* The value a constructor was passed for a setting: defined once the stack
\* that takes the setting exists.
PassedString(s) ==
    CASE s = "AWS_REGION" ->
            IF networkStack.created THEN Def(networkStack.env.region) ELSE Undefined
      [] s = "PROJECT_NAME" ->
            IF networkStack.created THEN Def(networkStack.props.projectName) ELSE Undefined
      [] s = "VPC_CIDR" ->
            IF networkStack.created THEN Def(networkStack.props.cidr) ELSE Undefined
      [] s = "ECR_REPO_NAME" ->
            IF ecrStack.created THEN Def(ecrStack.props.repoName) ELSE Undefined
      [] s = "DB_ENGINE" ->
            IF databaseStack.created THEN Def(databaseStack.props.dbEngine) ELSE Undefined
      [] s = "DB_ENGINE_VERSION" ->
            IF databaseStack.created THEN Def(databaseStack.props.dbEngineVersion)
            ELSE Undefined
      [] s = "DB_INSTANCE_CLASS" ->
            IF databaseStack.created THEN Def(databaseStack.props.dbInstanceClass)
            ELSE Undefined
      [] s = "DB_NAME" ->
            IF databaseStack.created THEN Def(databaseStack.props.dbName) ELSE Undefined
      [] s = "DB_USERNAME" ->
            IF databaseStack.created THEN Def(databaseStack.props.dbUsername) ELSE Undefined
      [] s = "COGNITO_USER_POOL_NAME" ->
            IF authStack.created THEN Def(authStack.props.userPoolName) ELSE Undefined
      [] s = "COGNITO_APP_CLIENT_NAME" ->
            IF authStack.created THEN Def(authStack.props.webClientName) ELSE Undefined
NumberPassed(s) ==
    CASE s = "MAX_AZS"            -> networkStack.created
      [] s \in NumericSettings    -> ecsStack.created
PassedNumber(s) ==
    CASE s = "MAX_AZS"            -> networkStack.props.maxAzs
      [] s = "ECS_CONTAINER_PORT" -> ecsStack.props.containerPort
      [] s = "ECS_DESIRED_COUNT"  -> ecsStack.props.desiredCount
      [] s = "ECS_TASK_CPU"       -> ecsStack.props.cpu
      [] s = "ECS_TASK_MEMORY"    -> ecsStack.props.memory

\* C4: for every supported setting that has no override, the value passed to
\* the component is the default the README's .env.example documents.
C4_DefaultsAreDocumented ==
    \A s \in SupportedSettings :
       ~process_env[s].def =>
          IF s \in NumericSettings
          THEN NumberPassed(s) => PassedNumber(s) = ToNumber(Def(EnvExample(s)))
          ELSE PassedString(s).def => PassedString(s).s = EnvExample(s)

\* The default of each numeric setting, and override strings that are no numbers.
NumericDefault(s) ==
    CASE s = "MAX_AZS" -> 2 [] s = "ECS_CONTAINER_PORT" -> 80 [] s = "ECS_DESIRED_COUNT" -> 2
      [] s = "ECS_TASK_CPU" -> 256 [] s = "ECS_TASK_MEMORY" -> 512
NonNumericStrings == {<<"a", "b", "c">>, <<"3", "a">>}

\* C5: for every numeric setting, an override that does not parse as a number
\* makes the value passed to the component the setting's default, and the
\* resolution raises nothing: the process never faults on it (it faults only
\* on a DB_INSTANCE_CLASS override), and the constructor that takes the
\* setting runs.
C5_NonNumericFallsBack ==
    \A s \in NumericSettings :
       (process_env[s].def /\ process_env[s].s \in NonNumericStrings) =>
          /\ NumberPassed(s) => PassedNumber(s) = [nan |-> FALSE, num |-> NumericDefault(s),
                                                   den |-> 1]
          /\ ~process_env["DB_INSTANCE_CLASS"].def => fault = "none"
          /\ (Done /\ ~process_env["DB_INSTANCE_CLASS"].def) => NumberPassed(s)

\* C5's case: the pass is over with a non-numeric ECS_TASK_CPU.
C5_Witness ==
    /\ Done
    /\ process_env["ECS_TASK_CPU"] = Def(<<"a", "b", "c">>)
    /\ ecsStack.props.cpu.num = 256

IsPositiveInteger(n) == ~n.nan /\ n.den = 1 /\ n.num > 0

\* C6: for every override string of a numeric setting the value passed to the
\* component is a positive integer: the parsed override when that is a
\* positive integer, the default otherwise.
C6_PassedIsPositiveInteger ==
    \A s \in NumericSettings :
       (process_env[s].def /\ NumberPassed(s)) =>
          /\ IsPositiveInteger(PassedNumber(s))
          /\ PassedNumber(s) =
                IF IsPositiveInteger(ToNumber(process_env[s])) THEN ToNumber(process_env[s])
                ELSE [nan |-> FALSE, num |-> NumericDefault(s), den |-> 1]

\* C7: when the construction pass completes, for every component C and every
\* component P whose output handle C was handed, the deploy-after edge
\* "C after P" is registered: Database after Network, Compute after Network,
\* Compute after Database, Edge after Compute.
C7_ConsumedImpliesDeployAfter ==
    Done =>
       /\ \A c \in Components : \A h \in InputsOf(c) : <<c, h.producer>> \in dependencies
       /\ {<<"Database", "Network">>, <<"Compute", "Network">>, <<"Compute", "Database">>,
           <<"Edge", "Compute">>} \subseteq dependencies \cap DataEdges

\* C7's case: the pass is over, handles were handed to three components and
\* every addDependency call was made.
C7_Witness ==
    /\ Done
    /\ depIdx = 6
    /\ \A c \in {"Database", "Compute", "Edge"} : InputsOf(c) # {}

\* The one order of instantiation.
FixedOrder == <<"Network", "Registry", "Database", "Identity", "Compute", "Edge">>

\* C8: in every run, whatever the configuration, the components are
\* instantiated in the one order Network, Registry, Database, Identity,
\* Compute, Edge: the order so far is always a prefix of it, and the whole of
\* it when the pass completes.
C8_FixedOrder ==
    /\ Len(order) <= Len(FixedOrder)
    /\ order = SubSeq(FixedOrder, 1, Len(order))
    /\ Done => order = FixedOrder

\* C8's case: the pass is over under a configuration with an override.
C8_Witness ==
    /\ Done
    /\ Len(order) = 6
    /\ process_env # NoOverrides

C10_NatGatewaysMatchAzs ==
    networkStack.created =>
       /\ networkStack.vpc.maxAzs = networkStack.props.maxAzs
       /\ networkStack.vpc.natGateways = networkStack.props.maxAzs
       /\ process_env["MAX_AZS"] = Def(<<"3">>) =>
             /\ networkStack.vpc.maxAzs = [nan |-> FALSE, num |-> 3, den |-> 1]
             /\ networkStack.vpc.natGateways = [nan |-> FALSE, num |-> 3, den |-> 1]
       /\ ~process_env["MAX_AZS"].def =>
             networkStack.vpc.natGateways = [nan |-> FALSE, num |-> 2, den |-> 1]

\* C10's case: the Network stack exists under MAX_AZS=3.
C10_Witness ==
    /\ networkStack.created
    /\ process_env["MAX_AZS"] = Def(<<"3">>)
    /\ networkStack.vpc.natGateways.num = 3


\* C11: Edge's only data dependency is Compute.  Edge is handed no output of
\* Network or of Identity (its props hold the load balancer's address and
\* configuration values only), so its deploy-after edges to Network and to
\* Identity are ordering-only; and the graph without the Edge-after-Identity
\* edge is still acyclic and still contains every data-dependency edge.
C11_EdgeDependsOnComputeOnly ==
    /\ frontendStack.created =>
          /\ {h.producer : h \in InputsOf("Edge")} = {"Compute"}
          /\ DOMAIN frontendStack.props =
                {"env", "projectName", "bucketName", "albDomain", "albHttpsPort",
                 "cloudFrontDomain", "cloudFrontCertArn"}
          /\ frontendStack.props.albDomain = ecsStack.albDomain
    /\ <<"Edge", "Network">> \notin DataEdges
    /\ <<"Edge", "Identity">> \notin DataEdges
    /\ Acyclic((dependencies \ {<<"Edge", "Identity">>}) \cup DataEdges)
    /\ Done =>
          /\ {<<"Edge", "Network">>, <<"Edge", "Identity">>} \subseteq dependencies
          /\ DataEdges \subseteq dependencies \ {<<"Edge", "Identity">>}

\* C11's case: the pass is over, Edge has both ordering-only edges and one
\* data edge.
C11_Witness ==
    /\ Done
    /\ <<"Edge", "Identity">> \in dependencies
    /\ <<"Edge", "Network">> \in dependencies
    /\ <<"Edge", "Compute">> \in dependencies \cap DataEdges


\* The configuration values a constructor takes that the interfaces declare
\* required are all concrete: strings are non-empty and numbers are not NaN.
RequiredValuesConcrete ==
    /\ networkStack.created =>
          /\ networkStack.env.account # <<>> /\ networkStack.env.region # <<>>
          /\ networkStack.props.projectName # <<>> /\ networkStack.props.cidr # <<>>
          /\ ~networkStack.props.maxAzs.nan
    /\ ecrStack.created => ecrStack.props.repoName # <<>>
    /\ databaseStack.created =>
          /\ databaseStack.props.dbName # <<>> /\ databaseStack.props.dbEngine # <<>>
          /\ databaseStack.props.dbEngineVersion # <<>>
          /\ databaseStack.props.dbInstanceClass # <<>>
          /\ databaseStack.props.dbUsername # <<>>
    /\ authStack.created =>
          /\ authStack.props.userPoolName # <<>> /\ authStack.props.webClientName # <<>>
    /\ ecsStack.created =>
          /\ ecsStack.props.clusterName # <<>>
          /\ ~ecsStack.props.containerPort.nan /\ ~ecsStack.props.desiredCount.nan
          /\ ~ecsStack.props.cpu.nan /\ ~ecsStack.props.memory.nan
    /\ frontendStack.created =>
          /\ frontendStack.props.bucketName # <<>> /\ frontendStack.props.albDomain # <<>>
          /\ ~frontendStack.props.albHttpsPort.nan

\* C12 as the specification words it: every configuration value passed into
\* a constructor is defined; no undefined value reaches any component.
C12_NoUndefinedPassed ==
    /\ RequiredValuesConcrete
    /\ ecsStack.created => ecsStack.props.taskImage.def
    /\ frontendStack.created =>
          /\ frontendStack.props.cloudFrontDomain.def
          /\ frontendStack.props.cloudFrontCertArn.def

\* C12, amended: every configuration value passed into a constructor is
\* concrete, except the three optional props taskImage, cloudFrontDomain and
\* cloudFrontCertArn: each of them is undefined exactly when its setting
\* (CONTAINER_IMAGE_URI, FRONTEND_DOMAIN, FRONTEND_CERT_ARN) is unset or
\* empty, and is the setting's non-empty value otherwise.
C12_OnlyOptionalUndefined ==
    /\ RequiredValuesConcrete
    /\ ecsStack.created =>
          /\ ecsStack.props.taskImage.def <=> Truthy(process_env["CONTAINER_IMAGE_URI"])
          /\ ecsStack.props.taskImage.def =>
                /\ ecsStack.props.taskImage.s # <<>>
                /\ ecsStack.props.taskImage = process_env["CONTAINER_IMAGE_URI"]
    /\ frontendStack.created =>
          /\ frontendStack.props.cloudFrontDomain.def <=>
                Truthy(process_env["FRONTEND_DOMAIN"])
          /\ frontendStack.props.cloudFrontDomain.def =>
                /\ frontendStack.props.cloudFrontDomain.s # <<>>
                /\ frontendStack.props.cloudFrontDomain = process_env["FRONTEND_DOMAIN"]
          /\ frontendStack.props.cloudFrontCertArn.def <=>
                Truthy(process_env["FRONTEND_CERT_ARN"])
          /\ frontendStack.props.cloudFrontCertArn.def =>
                frontendStack.props.cloudFrontCertArn = process_env["FRONTEND_CERT_ARN"]

\* C12's case: the pass is over, the image prop is undefined and the custom
\* domain is passed as configured.
C12_Witness ==
    /\ Done
    /\ ~ecsStack.props.taskImage.def
    /\ process_env["FRONTEND_DOMAIN"] = Def(<<"app.example.com">>)
    /\ frontendStack.props.cloudFrontDomain = Def(<<"app.example.com">>)
    /\ ~frontendStack.props.cloudFrontCertArn.def


\* C13 as the specification words it: every read of the environment happens
\* before the first component is instantiated, and no constructor reads the
\* environment itself.
C13_AllReadsBeforeInstantiation ==
    \A r \in envRead : r.instantiated = 0 /\ r.reader = "app"

\* How many stacks exist when the app script reads a setting.
StagesOfSetting(s) ==
    CASE s \in {"AWS_REGION", "CDK_DEFAULT_ACCOUNT", "AWS_ACCOUNT_ID", "PROJECT_NAME",
                "VPC_CIDR", "MAX_AZS"} -> {0}
      [] s = "ECR_REPO_NAME" -> {1}
      [] s \in DatabaseSettings -> {2}
      [] s \in {"COGNITO_USER_POOL_NAME", "COGNITO_APP_CLIENT_NAME"} -> {3}
      [] s \in EcsSettings -> {4}
      [] s = "FRONTEND_CERT_ARN" -> {5}
      [] s = "FRONTEND_DOMAIN" -> {5, 6}
      [] OTHER -> {}

\* The settings read so far.
SettingsRead == {r.setting : r \in envRead}

\* C13, amended: the reads are interleaved with the instantiations at fixed
\* places. Only the region, account, name prefix and Network settings are
\* read before the first component; every later component's settings are
\* read by the app script right before that component is instantiated, after
\* all earlier ones; FRONTEND_DOMAIN is read once more after the last
\* component; and the only constructor that reads the environment itself is
\* Compute's, which reads BACKEND_CERT_ARN. A component that exists has had all
\* its settings read.
C13_ReadsAtFixedStage ==
    /\ \A r \in envRead :
          IF r.reader = "app"
          THEN r.instantiated \in StagesOfSetting(r.setting)
          ELSE r = [setting |-> "BACKEND_CERT_ARN", reader |-> "Compute", instantiated |-> 4]
    /\ networkStack.created => {"PROJECT_NAME", "VPC_CIDR", "MAX_AZS"} \subseteq SettingsRead
    /\ ecrStack.created => "ECR_REPO_NAME" \in SettingsRead
    /\ databaseStack.created => DatabaseSettings \subseteq SettingsRead
    /\ authStack.created =>
          {"COGNITO_USER_POOL_NAME", "COGNITO_APP_CLIENT_NAME"} \subseteq SettingsRead
    /\ ecsStack.created <=>
          [setting |-> "BACKEND_CERT_ARN", reader |-> "Compute", instantiated |-> 4]
             \in envRead
    /\ ecsStack.created => EcsSettings \subseteq SettingsRead
    /\ frontendStack.created => {"FRONTEND_DOMAIN", "FRONTEND_CERT_ARN"} \subseteq SettingsRead

\* C13's case: the pass is over, the Compute constructor has read the
\* environment and the custom domain was read after the last component.
C13_Witness ==
    /\ Done
    /\ [setting |-> "BACKEND_CERT_ARN", reader |-> "Compute", instantiated |-> 4] \in envRead
    /\ [setting |-> "FRONTEND_DOMAIN", reader |-> "app", instantiated |-> 6] \in envRead
    /\ [setting |-> "DB_ENGINE", reader |-> "app", instantiated |-> 2] \in envRead


\* C14 as the specification words it: within one pass, no step changes
\* anything of a stack that is already instantiated.
C14_InstantiatedNeverChanges ==
    [][run' = run =>
          \A c \in Components : StackOf(c).created => StackOf(c)' = StackOf(c)]_vars

\* C14, amended: within one pass an instantiated stack never changes, with
\* one exception: instantiating Compute adds a rule to the Database stack's
\* security group, and that rule admits Compute's task security group. The
\* Database stack's secret, and everything of it but that rule set, stay as
\* they were.
C14_OnlyDbIngressAdded ==
    [][run' = run =>
          /\ \A c \in Components \ {"Database"} :
                StackOf(c).created => StackOf(c)' = StackOf(c)
          /\ databaseStack.created =>
                /\ databaseStack' =
                      [databaseStack EXCEPT !.dbSecurityGroup.ingress =
                                               databaseStack'.dbSecurityGroup.ingress]
                /\ databaseStack'.dbSecret = databaseStack.dbSecret
                /\ databaseStack.dbSecurityGroup.ingress \subseteq
                      databaseStack'.dbSecurityGroup.ingress
                /\ \A r \in databaseStack'.dbSecurityGroup.ingress
                               \ databaseStack.dbSecurityGroup.ingress :
                      /\ At("ecs") /\ ~ecsStack.created /\ ecsStack'.created
                      /\ r.peer = Ref("Compute", "ecsSecurityGroup")]_vars

\* C14's case: Compute is instantiated and the Database stack's security
\* group, created without rules, now has one.
C14_Witness ==
    /\ ecsStack.created
    /\ databaseStack.created
    /\ Cardinality(databaseStack.dbSecurityGroup.ingress) = 1
    /\ databaseStack.dbSecret.id = databaseStack.props.projectName \o <<"-DBCredentials">>


C16_OriginProtocolMatchesListener ==
    frontendStack.created =>
       IF Truthy(process_env["BACKEND_CERT_ARN"])
       THEN /\ ecsStack.listener.port = Num(443)
            /\ frontendStack.albOrigin.protocolPolicy = "HTTPS_ONLY"
       ELSE /\ ecsStack.listener.port = Num(80)
            /\ frontendStack.albOrigin.protocolPolicy = "HTTP_ONLY"


\* C17: with a certificate and without one, every ingress rule of the load
\* balancer's security group has the CloudFront prefix list as its source;
\* the listener opens nothing else, and the listener's port is among the
\* ports the rules admit.
C17_AlbIngressOnlyFromCloudFront ==
    ecsStack.created =>
       /\ ecsStack.albSecurityGroup.ingress # {}
       /\ \A r \in ecsStack.albSecurityGroup.ingress : r.peer = <<"pl-3b927c52">>
       /\ ~ecsStack.listener.open
       /\ ecsStack.listener.port \in {r.port : r \in ecsStack.albSecurityGroup.ingress}
       /\ {r.port : r \in ecsStack.albSecurityGroup.ingress} =
             IF Truthy(process_env["BACKEND_CERT_ARN"])
             THEN {Num(443)} ELSE {Num(443), Num(80)}

\* C17's case: Compute is instantiated without a certificate, so the group
\* has the rule for port 80 next to the one for port 443.
C17_Witness ==
    /\ ecsStack.created
    /\ ~Truthy(process_env["BACKEND_CERT_ARN"])
    /\ ecsStack.listener.id = "HttpListener"
    /\ Cardinality(ecsStack.albSecurityGroup.ingress) = 2


\* The port a database of each engine listens on; the Database stack sets
\* no port of its own (auth-stack.ts 117-150), so it is the engine's.
EnginePort(engineType) ==
    CASE engineType = "postgres" -> Num(5432)
      [] engineType = "mysql" -> Num(3306)
      [] engineType = "aurora-mysql" -> Num(3306)

\* C18: whatever the engine (mysql, postgres, aurora-mysql), the rule Compute
\* declares on the Database stack's security group admits Compute's task
\* security group on that engine's port.
C18_DbRuleOnEnginePort ==
    ecsStack.created =>
       \E r \in databaseStack.dbSecurityGroup.ingress :
          /\ r.peer = Ref("Compute", "ecsSecurityGroup")
          /\ r.port = EnginePort(databaseStack.dbInstance.engine.engineType)


\* C19: the DB_HOST the container is given is the database's network address,
\* the instance's endpoint, and not the identifier of its security group.
C19_DbHostIsEndpoint ==
    ecsStack.created =>
       /\ ecsStack.container.environment.DB_HOST
             \in {Token("Database", "dbInstance.instanceEndpoint.hostname"),
                  Token("Database", "dbInstance.dbInstanceEndpointAddress")}
       /\ ecsStack.container.environment.DB_HOST
             # Token("Database", "dbSecurityGroup.securityGroupId")


\* C20: when CONTAINER_IMAGE_URI is not provided the container's image is
\* taken from the Registry stack's repository; when it is provided the image
\* is exactly that URI.
C20_ImageFromRegistryOrUri ==
    ecsStack.created =>
       IF Truthy(process_env["CONTAINER_IMAGE_URI"])
       THEN ecsStack.container.image =
               [from |-> "fromRegistry", name |-> process_env["CONTAINER_IMAGE_URI"].s]
       ELSE /\ ecsStack.container.image.from = "fromEcrRepository"
            /\ ecsStack.container.image.name
                  \in {ecrStack.repository.repositoryName, ecrStack.repository.id,
                       Token("Registry", "repository.repositoryUri")}


\* C21 as the specification words it: the app's FrontendURL output and the
\* Edge stack's CloudFrontURL output are the same string, with FRONTEND_DOMAIN
\* set and without.
C21_OutputsSameString ==
    Done => appOutputs.FrontendURL = frontendStack.outputs.CloudFrontURL

\* C21, amended: the two outputs are the same string, "https://" followed by
\* the custom domain, when FRONTEND_DOMAIN is set (non-empty). When it is not,
\* they differ: CloudFrontURL is "https://" followed by the generated
\* distribution address, and FrontendURL is that address alone.
C21_SameOnlyWithDomain ==
    Done =>
       IF Truthy(process_env["FRONTEND_DOMAIN"])
       THEN /\ appOutputs.FrontendURL = frontendStack.outputs.CloudFrontURL
            /\ appOutputs.FrontendURL =
                  <<"https://">> \o process_env["FRONTEND_DOMAIN"].s
       ELSE /\ frontendStack.outputs.CloudFrontURL =
                  <<"https://">> \o appOutputs.FrontendURL
            /\ appOutputs.FrontendURL = frontendStack.cloudFrontDistribution.domainName
            /\ appOutputs.FrontendURL # frontendStack.outputs.CloudFrontURL

\* C21's case: both outputs are declared with no custom domain, and
\* CloudFrontURL carries the scheme FrontendURL lacks.
C21_Witness ==
    /\ Done
    /\ ~Truthy(process_env["FRONTEND_DOMAIN"])
    /\ Head(frontendStack.outputs.CloudFrontURL) = "https://"
    /\ Head(appOutputs.FrontendURL) # "https://"
    /\ Tail(frontendStack.outputs.CloudFrontURL) = appOutputs.FrontendURL

====
